---- MODULE Spec2Model ----
(***************************************************************************)
(* Quiz session engine of src/main.js: the module-level `state` object,    *)
(* the parts of the DOM the handlers read and write, the timers that the   *)
(* practice-mode feedback schedules, and one action per event handler.     *)
(*                                                                         *)
(* Handlers are enabled whenever the element they are attached to exists:  *)
(* main.js guards none of them by the session's phase, and whether a       *)
(* screen covers an element is decided by the style sheet, not by main.js. *)
(***************************************************************************)
EXTENDS Integers, Sequences, FiniteSets

(* ------------------------------ bounds -------------------------------- *)

\* Largest number of questions of a loaded question set (state.questions.length).
NumQuestions == 2

\* Number of questions of the question set the practice scenario runs on.
ScenarioQuestions == 3

\* Number of questions of the question set the navigation scenarios run on.
NavQuestions == 4

\* Largest number of feedback sequences (pending timers) the model follows.
MaxTimers == 2

(* ---------------------------- question set ----------------------------- *)

\* The indices of q.choices: every question of the set has two choices.
ChoiceIndices == {0, 1}

\* The id of the question at index i: unique, and different from the index.
QuestionId(i) == 100 + i

\* A question set of n questions, as loadQuestions stores it in state.questions:
\* the ids and the correct indices (the texts are not modelled).
QuestionSet(n) == [i \in 0 .. (n - 1) |-> [id |-> QuestionId(i), correctIndex |-> i % 2]]

(* ------------------------------- values -------------------------------- *)

\* The three tags of the review list ('立式ミス', '計算ミス', '読み落とし').
ErrorTags == {"setup", "calculation", "misread"}

\* No tag: a record written by handleChoice has no errorTag property, and the
\* tag button stores null when it clears a tag; the code tells the two apart
\* nowhere (ans.errorTag === tag, and the truth value of ans.errorTag).
NoTag == "none"

TagValues == ErrorTags \cup {NoTag}

Modes == {"practice", "test"}

NoQuestion == -1

NoScore == [correct |-> -1, total |-> -1]

\* What a progress item shows of its question: nothing ("plain"), the classes
\* 'correct' or 'incorrect', or the blue background of an answered question.
ProgressStatuses == {"plain", "correct", "incorrect", "answered"}

VARIABLES
  questions,             \* state.questions
  mode,                  \* state.mode
  currentQuestionIndex,  \* state.currentQuestionIndex
  answers,               \* state.answers: the records, each under its question id
  startScreenHidden,     \* dom.startScreen has class 'hidden'
  resultsScreenHidden,   \* dom.resultsScreen has class 'hidden'
  choicesArea,           \* index of the question whose choice buttons are in dom.choicesArea
  progressBar,           \* dom.progressBar holds the progress items
  scoreDisplay,          \* dom.scoreDisplay: the score showResults wrote
  reviewList,            \* dom.reviewList: per question, what its tag buttons are bound to
  timers,                \* pending setTimeout callbacks of the feedback sequences, oldest first
  finished,              \* history: finishGame has run since the last startGame
  feedbackAreaHidden,    \* dom.feedbackArea (the explanation) has class 'hidden'
  progressItems          \* per question, the status its progress item shows

vars == <<questions, mode, currentQuestionIndex, answers, startScreenHidden, resultsScreenHidden,
          choicesArea, progressBar, scoreDisplay, reviewList, timers, finished,
          feedbackAreaHidden, progressItems>>

\* The valid indices into state.questions.
Indices == DOMAIN questions

\* state.questions.length
QuestionCount == Cardinality(DOMAIN questions)

LastIndex == QuestionCount - 1

QuestionIds == {questions[i].id : i \in Indices}

TypeOK ==
  /\ questions \in {QuestionSet(n) : n \in 1 .. (NumQuestions + ScenarioQuestions + NavQuestions)}
  /\ mode \in Modes
  /\ currentQuestionIndex \in Indices
  /\ answers \subseteq [id : QuestionIds, isCorrect : BOOLEAN,
                        selectedIndex : ChoiceIndices, errorTag : TagValues]
  /\ startScreenHidden \in BOOLEAN
  /\ resultsScreenHidden \in BOOLEAN
  /\ choicesArea \in Indices \cup {NoQuestion}
  /\ progressBar \in BOOLEAN
  /\ scoreDisplay \in [correct : -1 .. QuestionCount, total : -1 .. QuestionCount]
  /\ reviewList \in [Indices -> {"none", "live", "unbound"}]
  /\ timers \in Seq([phase : {"overlay", "advance"}, session : {"current", "earlier"}])
  /\ Len(timers) <= MaxTimers
  /\ finished \in BOOLEAN
  /\ feedbackAreaHidden \in BOOLEAN
  /\ progressItems \in [Indices -> ProgressStatuses]

(* ------------------------- state after init() -------------------------- *)

\* The `state` literal, the page as loaded (start screen showing, no question
\* rendered, no explanation showing, no progress items, empty review list) and
\* the loaded question set.
InitWith(qs) ==
  /\ questions = qs
  /\ mode = "practice"
  /\ currentQuestionIndex = 0
  /\ answers = {}
  /\ startScreenHidden = FALSE
  /\ resultsScreenHidden = TRUE
  /\ choicesArea = NoQuestion
  /\ progressBar = FALSE
  /\ scoreDisplay = NoScore
  /\ reviewList = [i \in Indices |-> "none"]
  /\ timers = <<>>
  /\ finished = FALSE
  /\ feedbackAreaHidden = TRUE
  /\ progressItems = [i \in Indices |-> "plain"]

\* Any question set of 1 .. NumQuestions questions may have been loaded.
Init == \E n \in 1 .. NumQuestions : InitWith(QuestionSet(n))

\* The question set of the practice scenario.
ScenarioInit == InitWith(QuestionSet(ScenarioQuestions))

\* The question set of the navigation scenarios.
NavInit == InitWith(QuestionSet(NavQuestions))

(* ------------------------------ helpers -------------------------------- *)

\* state.answers[id]: the records stored under id (none when the key is absent).
AnswersFor(ans, id) == {a \in ans : a.id = id}

HasAnswer(ans, id) == AnswersFor(ans, id) # {}

\* A store that appends the record and keeps what the key held.
PutAnswerAppending(ans, rec) == ans \cup {rec}

\* A store that carries the errorTag of the record it replaces over to the new one.
PutAnswerKeepingTag(ans, rec) ==
  {a \in ans : a.id # rec.id}
    \cup {[rec EXCEPT !.errorTag = IF \E a \in ans : a.id = rec.id
                                  THEN (CHOOSE a \in ans : a.id = rec.id).errorTag
                                  ELSE rec.errorTag]}

\* state.answers[rec.id] = rec: the assignment replaces what the key held.
PutAnswer(ans, rec) == {a \in ans : a.id # rec.id} \cup {rec}

\* A comparison with the first choice instead of the question's correct one.
IsCorrectChoiceFirst(q, selectedIndex) == selectedIndex = 0

\* selectedIndex === q.correctIndex
IsCorrectChoice(q, selectedIndex) == selectedIndex = q.correctIndex

\* A record that takes every selection as correct.
NewRecordUngraded(q, selectedIndex) ==
  [id |-> q.id, isCorrect |-> TRUE, selectedIndex |-> selectedIndex, errorTag |-> NoTag]

\* The object literal handleChoice stores: it has no errorTag property.
NewRecord(q, selectedIndex) ==
  [id |-> q.id, isCorrect |-> IsCorrectChoice(q, selectedIndex),
   selectedIndex |-> selectedIndex, errorTag |-> NoTag]

\* An off-by-one bound of the advance: compares with the length, not the last index.
CanAdvanceUpToLength(idx) == idx < QuestionCount

\* state.currentQuestionIndex < state.questions.length - 1
CanAdvance(idx) == idx < QuestionCount - 1

\* A back rule that lets any earlier question through, not only the previous one.
TestBackAllowedAnyEarlier(idx, cur) == idx < cur

\* idx === state.currentQuestionIndex - 1
TestBackAllowed(idx, cur) == idx = cur - 1

\* A navigation rule that lets every jump through in either mode.
CanNavigateAlways(m, cur, idx) == TRUE

\* The navigation rule of the progress item's onclick.
CanNavigate(m, cur, idx) == m = "practice" \/ TestBackAllowed(idx, cur)

\* A tag button that only sets its tag and never clears it.
ToggleTagSetOnly(errorTag, tag) == tag

\* if (ans.errorTag === tag) ans.errorTag = null; else ans.errorTag = tag;
ToggleTag(errorTag, tag) == IF errorTag = tag THEN NoTag ELSE tag

\* A count that takes every question without an incorrect record as correct.
CorrectCountNotIncorrect(ans) == QuestionCount - Cardinality({a \in ans : ~a.isCorrect})

\* Object.values(state.answers).filter(a => a.isCorrect).length
CorrectCount(ans) == Cardinality({a \in ans : a.isCorrect})

\* A review list that gives every answered question tag buttons, the correctly
\* answered ones included.
BuildReviewListTagsForAll(ans) ==
  [i \in Indices |-> IF AnswersFor(ans, questions[i].id) = {} THEN "unbound" ELSE "live"]

\* The review list showResults builds: a correct question gets no tag buttons,
\* an incorrect one gets buttons bound to its record ("live"), an unanswered
\* one gets buttons whose `ans` is undefined ("unbound").
BuildReviewList(ans) ==
  [i \in Indices |->
     LET recs == AnswersFor(ans, questions[i].id)
     IN IF recs = {} THEN "unbound"
        ELSE IF \E a \in recs : a.isCorrect THEN "none" ELSE "live"]

\* A record replaced in (or dropped from) state.answers is still the object the
\* tag buttons built for it hold: their clicks no longer reach state.answers.
Unbind(review, S) ==
  [i \in Indices |-> IF i \in S /\ review[i] = "live" THEN "unbound" ELSE review[i]]

\* The phases of a session: no session was started yet (no question was ever
\* rendered), the session is in progress, the session has finished.
NotStarted == choicesArea = NoQuestion

Finished == finished

InProgress == ~NotStarted /\ ~Finished

\* The timers of the current session that are still pending.
CurrentTimers == {i \in DOMAIN timers : timers[i].session = "current"}

(* ---------------------------- rendering -------------------------------- *)

\* The status updateProgressBar gives the item of an answered question.
ProgressStatus(m, a) ==
  IF m = "practice"
  THEN (IF a.isCorrect THEN "correct" ELSE "incorrect")
  ELSE "answered"

\* The statuses updateProgressBar gives the progress items with state.mode = m
\* and state.answers = ans. The class 'active' of the current item is not
\* modelled: it follows state.currentQuestionIndex in every handler.
ProgressItemsFor(m, ans) ==
  [i \in Indices |->
     LET recs == AnswersFor(ans, questions[i].id)
     IN IF recs = {} THEN "plain" ELSE ProgressStatus(m, CHOOSE a \in recs : TRUE)]

\* updateProgressBar: before the first renderProgressBar there are no items to
\* update.
updateProgressBar(m, ans) == IF progressBar THEN ProgressItemsFor(m, ans) ELSE progressItems

\* state.mode === 'practice' && existingAns
ShowsExplanation(m, ans, idx) == m = "practice" /\ HasAnswer(ans, questions[idx].id)

\* renderQuestion with state.currentQuestionIndex = idx, state.mode = m and
\* state.answers = ans: the choice buttons of the question; the explanation
\* hidden or (practice mode, answered question) shown again; the progress items
\* updated.
renderQuestion(m, ans, idx) ==
  /\ choicesArea' = idx
  /\ feedbackAreaHidden' = ~ShowsExplanation(m, ans, idx)
  /\ progressItems' = updateProgressBar(m, ans)

(* --------------------------- showResults ------------------------------- *)

showResults(ans) ==
  /\ resultsScreenHidden' = FALSE
  /\ scoreDisplay' = [correct |-> CorrectCount(ans), total |-> QuestionCount]
  /\ reviewList' = BuildReviewList(ans)

(* ---------------------------- finishGame ------------------------------- *)

finishGame(ans, review) ==
  /\ finished' = TRUE
  /\ IF mode = "test"
     THEN /\ showResults(ans)
          /\ UNCHANGED startScreenHidden
     ELSE /\ startScreenHidden' = FALSE
          /\ reviewList' = review
          /\ UNCHANGED <<resultsScreenHidden, scoreDisplay>>

(* --------------------------- nextQuestion ------------------------------ *)

\* `ans` and `review` are state.answers and the review list as the caller left them.
nextQuestion(ans, review) ==
  IF CanAdvance(currentQuestionIndex)
  THEN /\ currentQuestionIndex' = currentQuestionIndex + 1
       /\ IF currentQuestionIndex + 1 \in Indices
          THEN renderQuestion(mode, ans, currentQuestionIndex + 1)
          ELSE /\ progressItems' = updateProgressBar(mode, ans)
               /\ UNCHANGED <<choicesArea, feedbackAreaHidden>>
       /\ reviewList' = review
       /\ UNCHANGED <<startScreenHidden, resultsScreenHidden, scoreDisplay, finished>>
  ELSE /\ progressItems' = updateProgressBar(mode, ans)
       /\ finishGame(ans, review)
       /\ UNCHANGED <<currentQuestionIndex, choicesArea, feedbackAreaHidden>>

(* ----------------------------- startGame ------------------------------- *)

\* A start that keeps the records of the session before.
KeptAnswers == answers

\* state.answers = {}
FreshAnswers == {}

\* btnPractice.onclick / btnTest.onclick. The pending timers are not cleared:
\* they stay scheduled, now belonging to an earlier session. renderProgressBar
\* builds the progress items anew.
startGame(m) ==
  /\ mode' = m
  /\ currentQuestionIndex' = 0
  /\ answers' = FreshAnswers
  /\ startScreenHidden' = TRUE
  /\ resultsScreenHidden' = TRUE
  /\ choicesArea' = 0
  /\ feedbackAreaHidden' = ~ShowsExplanation(m, FreshAnswers, 0)
  /\ progressBar' = TRUE
  /\ progressItems' = ProgressItemsFor(m, FreshAnswers)
  /\ reviewList' = Unbind(reviewList, {i \in Indices : ~HasAnswer(FreshAnswers, questions[i].id)})
  /\ timers' = [i \in DOMAIN timers |-> [timers[i] EXCEPT !.session = "earlier"]]
  /\ finished' = FALSE
  /\ UNCHANGED <<questions, scoreDisplay>>

(* ---------------------------- handleChoice ----------------------------- *)

\* btn.ondblclick of a choice button (isConfirmed = true); btn.onclick calls
\* handleChoice with isConfirmed = false, which returns at once. The callbacks
\* of the feedback sequence use the question only for the text of the
\* explanation, which is not modelled.
handleChoice(selectedIndex, isConfirmed) ==
  /\ choicesArea # NoQuestion
  /\ isConfirmed
  /\ LET q == questions[currentQuestionIndex]
         ans == PutAnswer(answers, NewRecord(q, selectedIndex))
         review == Unbind(reviewList, {currentQuestionIndex})
     IN /\ answers' = ans
        /\ IF mode = "practice"
           THEN /\ Len(timers) < MaxTimers
                /\ timers' = Append(timers, [phase |-> "overlay", session |-> "current"])
                /\ reviewList' = review
                /\ UNCHANGED <<currentQuestionIndex, choicesArea, startScreenHidden,
                               resultsScreenHidden, scoreDisplay, finished,
                               feedbackAreaHidden, progressItems>>
           ELSE /\ nextQuestion(ans, review)
                /\ UNCHANGED timers
  /\ UNCHANGED <<questions, mode, progressBar>>

(* ------------------------ feedback sequence timers --------------------- *)

\* Timers fire in the order of their deadlines: the 500 ms timers in the order
\* they were set, and a 200 ms timer only after every sequence started before
\* it has completed.
FirstOverlay == {i \in DOMAIN timers :
                   /\ timers[i].phase = "overlay"
                   /\ \A j \in 1 .. (i - 1) : timers[j].phase = "advance"}

\* A callback that leaves the feedback area as it is.
HiddenAfterOverlayKept == feedbackAreaHidden

\* renderExplanation(q); dom.feedbackArea.classList.remove('hidden')
HiddenAfterOverlay == FALSE

\* The 500 ms callback of showFeedbackOverlay: removes the overlay, shows the
\* explanation, and sets the 200 ms timer of nextQuestion.
overlayTimeout ==
  /\ \E i \in FirstOverlay :
       /\ timers' = [timers EXCEPT ![i].phase = "advance"]
       /\ feedbackAreaHidden' = HiddenAfterOverlay
  /\ UNCHANGED <<questions, mode, currentQuestionIndex, answers, startScreenHidden,
                 resultsScreenHidden, choicesArea, progressBar, scoreDisplay, reviewList,
                 finished, progressItems>>

\* The 200 ms callback: () => nextQuestion().
advanceTimeout ==
  /\ timers # <<>>
  /\ Head(timers).phase = "advance"
  /\ timers' = Tail(timers)
  /\ nextQuestion(answers, reviewList)
  /\ UNCHANGED <<questions, mode, answers, progressBar>>

(* ------------------------- progress item click ------------------------- *)

progressItemOnclick(idx) ==
  /\ progressBar
  /\ IF CanNavigate(mode, currentQuestionIndex, idx)
     THEN /\ currentQuestionIndex' = idx
          /\ renderQuestion(mode, answers, idx)
     ELSE UNCHANGED <<currentQuestionIndex, choicesArea, feedbackAreaHidden, progressItems>>
  /\ UNCHANGED <<questions, mode, answers, startScreenHidden, resultsScreenHidden, progressBar,
                 scoreDisplay, reviewList, timers, finished>>

(* --------------------------- tag button click -------------------------- *)

\* The record with the tag toggled; the other records as they are.
SetErrorTag(ans, id, tag) ==
  {IF a.id = id THEN [a EXCEPT !.errorTag = ToggleTag(a.errorTag, tag)] ELSE a : a \in ans}

tagBtnOnclick(i, tag) ==
  /\ reviewList[i] # "none"
  /\ answers' = IF reviewList[i] = "live"
                THEN SetErrorTag(answers, questions[i].id, tag)
                ELSE answers
  /\ UNCHANGED <<questions, mode, currentQuestionIndex, startScreenHidden, resultsScreenHidden,
                 choicesArea, progressBar, scoreDisplay, reviewList, timers, finished,
                 feedbackAreaHidden, progressItems>>

(* ---------------------------- restart button --------------------------- *)

btnRestartOnclick ==
  /\ resultsScreenHidden' = TRUE
  /\ startScreenHidden' = FALSE
  /\ UNCHANGED <<questions, mode, currentQuestionIndex, answers, choicesArea, progressBar,
                 scoreDisplay, reviewList, timers, finished, feedbackAreaHidden,
                 progressItems>>

(* ----------------------------- specification --------------------------- *)

Next ==
  \/ \E m \in Modes : startGame(m)
  \/ \E selectedIndex \in ChoiceIndices : handleChoice(selectedIndex, TRUE)
  \/ overlayTimeout
  \/ advanceTimeout
  \/ \E idx \in Indices : progressItemOnclick(idx)
  \/ \E i \in Indices, tag \in ErrorTags : tagBtnOnclick(i, tag)
  \/ btnRestartOnclick

Spec == Init /\ [][Next]_vars

SpecScenario == ScenarioInit /\ [][Next]_vars

SpecNav == NavInit /\ [][Next]_vars

\* The timers of the page fire: a callback that is due runs after finitely many
\* other events.
SpecFair == Init /\ [][Next]_vars /\ WF_vars(overlayTimeout) /\ WF_vars(advanceTimeout)

(* ------------------------------ step kinds ----------------------------- *)

\* A confirmed submission: a double click on a choice button.
SubmitStep == \E selectedIndex \in ChoiceIndices : handleChoice(selectedIndex, TRUE)

\* A user-initiated jump: a click on a progress item.
JumpStep == \E idx \in Indices : progressItemOnclick(idx)

\* A session start: a click on the practice or the test button.
StartStep == \E m \in Modes : startGame(m)

\* A click on a tag button of the review list.
TagStep == \E i \in Indices, tag \in ErrorTags : tagBtnOnclick(i, tag)

\* A step in which nextQuestion runs from the last index, that is, calls finishGame.
CompletionStep ==
  /\ ~CanAdvance(currentQuestionIndex)
  /\ advanceTimeout \/ (mode = "test" /\ SubmitStep)

\* The 200 ms callback of a sequence that an earlier session started.
StaleAdvanceStep ==
  /\ timers # <<>>
  /\ Head(timers).session = "earlier"
  /\ advanceTimeout

(* -------------------------------- C1 ----------------------------------- *)

\* C1: once a session has been started on a question set of length >= 1,
\* 0 <= currentQuestionIndex < state.questions.length in every reachable state.
C1_IndexInRange ==
  (QuestionCount >= 1 /\ ~NotStarted) =>
    (0 <= currentQuestionIndex /\ currentQuestionIndex < QuestionCount)

\* A practice round ran to its end: the advance was attempted at the last index
\* of a full-length question set, and the index stayed there.
C1_Witness ==
  /\ QuestionCount = NumQuestions
  /\ mode = "practice"
  /\ Finished
  /\ currentQuestionIndex = LastIndex
  /\ currentQuestionIndex > 0

(* -------------------------------- C2 ----------------------------------- *)

\* C2: in practice mode at most one feedback sequence of the session is
\* outstanding at any time: a confirmed submission made while one is pending is
\* rejected and schedules no second advance.
C2_AtMostOneFeedbackSequence == Cardinality(CurrentTimers) <= 1

(* -------------------------------- C3 ----------------------------------- *)

\* C3: a timer callback scheduled during an earlier session never changes
\* currentQuestionIndex and never finishes the session of a later session.
C3_StaleAdvanceDiscarded ==
  [][StaleAdvanceStep => UNCHANGED <<currentQuestionIndex, finished>>]_vars

(* -------------------------------- C4 ----------------------------------- *)

\* What the claim permits: any jump in practice mode, one step back in test mode.
JumpPermitted(t) ==
  \/ mode = "practice"
  \/ mode = "test" /\ t = currentQuestionIndex - 1

\* C4: a click on the progress item of an in-range index t moves
\* currentQuestionIndex to t if and only if the mode is practice, or the mode is
\* test and t = currentQuestionIndex - 1; a click that is not permitted leaves
\* currentQuestionIndex where it is. In test mode at index 2 the jumps to 0 and
\* to 3 are denied and the jump to 1 succeeds.
C4_JumpRule ==
  [][\A t \in Indices :
       progressItemOnclick(t) =>
         /\ JumpPermitted(t) => currentQuestionIndex' = t
         /\ ~JumpPermitted(t) => currentQuestionIndex' = currentQuestionIndex
         /\ (mode = "test" /\ currentQuestionIndex = 2) =>
              /\ t \in {0, 3} => currentQuestionIndex' = 2
              /\ t = 1 => currentQuestionIndex' = 1]_vars

\* A test session on four questions went forward to index 2 and one step back:
\* question 1 is answered and shown again, question 2 is not answered yet.
C4_Witness ==
  /\ QuestionCount = NavQuestions
  /\ mode = "test"
  /\ InProgress
  /\ timers = <<>>
  /\ currentQuestionIndex = 1
  /\ HasAnswer(answers, questions[1].id)
  /\ ~HasAnswer(answers, questions[2].id)
  /\ 3 \in Indices

(* -------------------------------- C5 ----------------------------------- *)

\* The records without their error tags: what was submitted under each id.
Submitted(ans) ==
  {[id |-> a.id, selectedIndex |-> a.selectedIndex, isCorrect |-> a.isCorrect] : a \in ans}

\* The selectedIndex and isCorrect stored under a question id.
Stored(ans, id) ==
  {[selectedIndex |-> a.selectedIndex, isCorrect |-> a.isCorrect] : a \in AnswersFor(ans, id)}

\* C5: state.answers holds at most one record per question id and only ids of
\* the question set (it starts empty, and every step that changes it leaves it
\* so); a confirmed submission leaves under the current question's id exactly
\* the submitted selectedIndex and its isCorrect, and no other step than a
\* submission or a session start changes what is stored under an id.
C5_OneRecordPerQuestion ==
  [][/\ \/ answers' = answers
        \/ LET ids == {a.id : a \in answers'}
           IN /\ ids \subseteq QuestionIds
              /\ Cardinality(ids) = Cardinality(answers')
     /\ \A s \in ChoiceIndices :
          handleChoice(s, TRUE) =>
            \A i \in Indices :
              Stored(answers', questions[i].id) =
                IF i = currentQuestionIndex
                THEN {[selectedIndex |-> s,
                       isCorrect |-> (s = questions[i].correctIndex)]}
                ELSE Stored(answers, questions[i].id)
     /\ \/ answers' = answers
        \/ Submitted(answers') = Submitted(answers)
        \/ SubmitStep
        \/ StartStep]_vars

\* Two submissions of the session are still in their feedback sequences and the
\* map holds one record: the second submission was made on the same question
\* with the other choice and replaced the record of the first.
C5_Witness ==
  /\ mode = "practice"
  /\ InProgress
  /\ Cardinality(CurrentTimers) = 2
  /\ Cardinality(answers) = 1
  /\ \E a \in answers : a.id = questions[0].id /\ ~a.isCorrect

(* -------------------------------- C6 ----------------------------------- *)

\* C6: a confirmed submission or a jump made before any session was started, or
\* after the session has finished and before the next session start, changes
\* neither mode, currentQuestionIndex nor state.answers and starts no feedback
\* sequence.
C6_NoOpOutsideSession ==
  [][((NotStarted \/ Finished) /\ (SubmitStep \/ JumpStep)) =>
       UNCHANGED <<mode, currentQuestionIndex, answers, timers>>]_vars

(* -------------------------------- C7 ----------------------------------- *)

\* The records whose tag buttons are in the review list and bound to them: the
\* incorrectly answered questions of the results view.
Taggable == {a \in answers : \E i \in Indices : questions[i].id = a.id /\ reviewList[i] = "live"}

\* The errorTag stored under id after the tag button `tag` was clicked twice.
TagAfterTwoClicks(a, tag) ==
  LET twice == SetErrorTag(SetErrorTag(answers, a.id, tag), a.id, tag)
  IN {b.errorTag : b \in AnswersFor(twice, a.id)}

\* C7 as stated: for every incorrectly answered question, every tag and every
\* prior tag value (none or any of the three tags), two clicks on the same tag
\* button leave the stored errorTag as it was before them.
C7_DoubleToggleRestores ==
  \A a \in Taggable : \A tag \in ErrorTags : TagAfterTwoClicks(a, tag) = {a.errorTag}

\* C7 as amended: two clicks on the same tag button leave the stored errorTag as
\* it was when it was none or that same tag; when it was another tag, they leave
\* no tag.
C7_DoubleToggleRestoresOwnOrNone ==
  \A a \in Taggable : \A tag \in ErrorTags :
    TagAfterTwoClicks(a, tag) = IF a.errorTag \in {NoTag, tag} THEN {a.errorTag} ELSE {NoTag}

\* The results view holds an incorrect answer with a tag set and another
\* incorrect answer with none: both prior values of the amended claim, and a
\* prior value that is another tag than the button clicked.
C7_Witness ==
  /\ ~resultsScreenHidden
  /\ \E a \in Taggable : a.errorTag \in ErrorTags
  /\ \E a \in Taggable : a.errorTag = NoTag

(* -------------------------------- C8 ----------------------------------- *)

\* The questions that have a record with isCorrect = true.
CorrectlyAnswered(ans) == {i \in Indices : \E a \in AnswersFor(ans, questions[i].id) : a.isCorrect}

\* C8: the score written when a test session ends is the number of records with
\* isCorrect = true, out of all questions, and counts no unanswered question; a
\* click on a tag button changes neither the score, nor that number, nor the
\* selectedIndex or isCorrect of any record.
C8_ScoreCountsCorrectRecords ==
  [][/\ (mode = "test" /\ CompletionStep) =>
          /\ scoreDisplay'.correct = Cardinality(CorrectlyAnswered(answers'))
          /\ scoreDisplay'.total = QuestionCount
          /\ ~resultsScreenHidden'
     /\ \/ /\ scoreDisplay' = scoreDisplay
           /\ \/ answers' = answers
              \/ Submitted(answers') = Submitted(answers)
        \/ ~TagStep]_vars

\* A test session on two questions ended with one incorrect record and one
\* question unanswered; the score shows 0 of 2, and the incorrect record has
\* been tagged since.
C8_Witness ==
  /\ QuestionCount = 2
  /\ mode = "test"
  /\ Finished
  /\ ~resultsScreenHidden
  /\ scoreDisplay = [correct |-> 0, total |-> 2]
  /\ Cardinality(answers) = 1
  /\ \E a \in answers : ~a.isCorrect /\ a.errorTag \in ErrorTags

(* -------------------------------- C9 ----------------------------------- *)

\* C9: completion is signalled once per session, when an advance is attempted
\* from the last index: in test mode it opens the results view, in practice mode
\* it shows the start screen and no results view; a session that has signalled
\* completion does not signal it again.
C9_CompletionOnce ==
  [][CompletionStep =>
       /\ ~Finished
       /\ Finished'
       /\ mode = "test" => ~resultsScreenHidden'
       /\ mode = "practice" =>
            (~startScreenHidden' /\ resultsScreenHidden' = resultsScreenHidden)]_vars

(* -------------------------------- C10 ---------------------------------- *)

\* C10: a session start from any state sets mode to the requested mode,
\* currentQuestionIndex to 0 and state.answers to empty; no tag button of the
\* review list reaches a record of the new session.
C10_StartResets ==
  [][\A m \in Modes :
       startGame(m) =>
         /\ mode' = m
         /\ currentQuestionIndex' = 0
         /\ answers' = {}
         /\ \A i \in Indices : reviewList'[i] # "live"
         /\ ~Finished']_vars

\* A session was started after a test session that had ended with tagged
\* answers: the score and the tag buttons of that session are still in the
\* page, and the new session has no record.
C10_Witness ==
  /\ InProgress
  /\ currentQuestionIndex = 0
  /\ answers = {}
  /\ scoreDisplay # NoScore
  /\ \E i \in Indices : reviewList[i] = "unbound"
  /\ startScreenHidden /\ resultsScreenHidden

(* -------------------------------- C11 ---------------------------------- *)

\* The records whose isCorrect is true exactly when their selectedIndex is the
\* correctIndex of the question they are stored under.
Graded(ans) ==
  {a \in ans : \A i \in Indices :
                questions[i].id = a.id =>
                  (a.isCorrect <=> a.selectedIndex = questions[i].correctIndex)}

\* C11: in every reachable state every record of state.answers has isCorrect =
\* true exactly when its selectedIndex equals the correctIndex of the question
\* it is stored under; a confirmed submission of the correct index stores
\* isCorrect = true, and of any other choice index isCorrect = false.
C11_IsCorrectMatchesChoice ==
  /\ [](Graded(answers) = answers)
  /\ [][\A s \in ChoiceIndices :
          handleChoice(s, TRUE) =>
            \A a \in AnswersFor(answers', questions[currentQuestionIndex].id) :
              /\ a.selectedIndex = s
              /\ s = questions[currentQuestionIndex].correctIndex => a.isCorrect
              /\ s # questions[currentQuestionIndex].correctIndex => ~a.isCorrect]_vars

\* A session holds a record of a correct submission and a record of an incorrect
\* one, on questions whose correct indices differ.
C11_Witness ==
  /\ InProgress
  /\ \E a, b \in answers :
       /\ a.isCorrect /\ ~b.isCorrect
       /\ a.selectedIndex = b.selectedIndex
       /\ a.id # b.id

(* -------------------------------- C12 ---------------------------------- *)

\* C12: a click on a progress item never changes state.answers or state.mode,
\* whether the jump is permitted or denied; a denied jump (test mode, target
\* other than currentQuestionIndex - 1) changes nothing at all, neither of the
\* session state (currentQuestionIndex included) nor of the page.
C12_JumpFrame ==
  [][\A t \in Indices :
       progressItemOnclick(t) =>
         /\ answers' = answers
         /\ mode' = mode
         /\ ~JumpPermitted(t) => UNCHANGED vars]_vars

\* A test session answered question 0, moved on to question 1 and jumped back:
\* the record of question 0 is still there, and from index 0 every jump is denied.
C12_Witness ==
  /\ QuestionCount >= 2
  /\ mode = "test"
  /\ InProgress
  /\ currentQuestionIndex = 0
  /\ choicesArea = 0
  /\ HasAnswer(answers, questions[0].id)
  /\ ~HasAnswer(answers, questions[1].id)
  /\ progressItems[0] = "answered"

(* -------------------------------- C13 ---------------------------------- *)

\* C13: a click on a tag button aimed at a correctly answered question or at a
\* question without a record changes nothing: no record of state.answers with
\* isCorrect = true ever carries an errorTag, and a click on a tag button
\* creates no record (the ids that have a record stay the same).
C13_NoTagOnCorrectOrMissing ==
  /\ [](\A a \in answers : a.isCorrect => a.errorTag = NoTag)
  /\ [][\/ answers' = answers
        \/ /\ \/ {a.id : a \in answers'} = {a.id : a \in answers}
              \/ ~TagStep
           /\ \A i \in Indices, tag \in ErrorTags :
                \/ \E a \in AnswersFor(answers, questions[i].id) : ~a.isCorrect
                \/ ~tagBtnOnclick(i, tag)]_vars

\* The results view of a finished test session lists a correctly answered
\* question, which has no tag buttons, and a question without a record, whose
\* tag buttons are in the list.
C13_Witness ==
  /\ mode = "test"
  /\ Finished
  /\ ~resultsScreenHidden
  /\ \E i \in Indices :
       /\ reviewList[i] = "none"
       /\ \E a \in AnswersFor(answers, questions[i].id) : a.isCorrect
  /\ \E i \in Indices : reviewList[i] = "unbound" /\ ~HasAnswer(answers, questions[i].id)

(* -------------------------------- C14 ---------------------------------- *)

\* C14: in test mode a confirmed submission stores the record and advances in
\* the same step: right after a submission at an index i that is not the last,
\* currentQuestionIndex = i + 1 and no timer is pending; only a confirmed
\* submission in practice mode sets a timer.
C14_TestAdvancesAtOnce ==
  [][/\ (mode = "test" /\ CanAdvance(currentQuestionIndex) /\ SubmitStep) =>
          /\ currentQuestionIndex' = currentQuestionIndex + 1
          /\ HasAnswer(answers', questions[currentQuestionIndex].id)
          /\ timers' = <<>>
     /\ Len(timers') > Len(timers) => (mode = "practice" /\ SubmitStep)]_vars

(* -------------------------------- C15 ---------------------------------- *)

\* The scenario: question 0 answered correctly, question 1 incorrectly,
\* question 2 correctly.
ScenarioCorrect(j) == j # 1

ScenarioChoice(j) ==
  IF ScenarioCorrect(j) THEN questions[j].correctIndex ELSE 1 - questions[j].correctIndex

\* The stages of the scenario. Stage 3j: question j is shown and nothing is
\* pending; stage 3j + 1: its choice was confirmed and the 500 ms timer is
\* pending; stage 3j + 2: the explanation shows and the 200 ms timer is pending;
\* stage 9: the round is complete.
ScenarioRecords(k) ==
  {[id |-> questions[j].id, isCorrect |-> ScenarioCorrect(j),
    selectedIndex |-> ScenarioChoice(j), errorTag |-> NoTag] : j \in 0 .. ((k + 2) \div 3) - 1}

ScenarioStage(k) ==
  /\ QuestionCount = 3
  /\ mode = "practice"
  /\ answers = ScenarioRecords(k)
  /\ IF k = 9
     THEN /\ Finished
          /\ currentQuestionIndex = 2
          /\ timers = <<>>
          /\ ~startScreenHidden
     ELSE /\ InProgress
          /\ currentQuestionIndex = k \div 3
          /\ choicesArea = k \div 3
          /\ startScreenHidden
          /\ timers = CASE k % 3 = 0 -> <<>>
                        [] k % 3 = 1 -> <<[phase |-> "overlay", session |-> "current"]>>
                        [] k % 3 = 2 -> <<[phase |-> "advance", session |-> "current"]>>
          /\ feedbackAreaHidden = (k % 3 # 2)

ScenarioStep(k) ==
  CASE k % 3 = 0 -> handleChoice(ScenarioChoice(k \div 3), TRUE)
    [] k % 3 = 1 -> overlayTimeout
    [] k % 3 = 2 -> advanceTimeout

\* C15: in a practice session on a 3-question set, confirming a correct, an
\* incorrect and a correct choice on questions 0, 1, 2 in turn, each after the
\* auto-advance of the one before has completed, takes the session through the
\* stages of the scenario and ends, after the feedback sequence of the third
\* submission, with the round complete and exactly 3 records of which 2 have
\* isCorrect = true.
C15_PracticeScenario ==
  /\ [][(QuestionCount = 3 /\ timers = <<>> /\ startGame("practice")) => ScenarioStage(0)']_vars
  /\ [][\A k \in 0 .. 8 : (ScenarioStage(k) /\ ScenarioStep(k)) => ScenarioStage(k + 1)']_vars
  /\ [](ScenarioStage(9) =>
         /\ Finished
         /\ Cardinality(answers) = 3
         /\ Cardinality({a \in answers : a.isCorrect}) = 2
         /\ Cardinality({a \in answers : ~a.isCorrect}) = 1)

\* The first session of the page ran through the scenario: the round is
\* complete, the start screen shows again, and no results view was ever built.
C15_Witness ==
  /\ ScenarioStage(9)
  /\ resultsScreenHidden
  /\ scoreDisplay = NoScore
  /\ progressItems = [i \in Indices |-> IF ScenarioCorrect(i) THEN "correct" ELSE "incorrect"]

(* -------------------------------- C16 ---------------------------------- *)

\* C16: a session becomes finished only in a step in which nextQuestion runs
\* from the last index, and whenever a test session is finished every question
\* of the set has a record, so that the results view lists no question without
\* a record.
C16_FinishedMeansAllAnswered ==
  /\ [][(~Finished /\ Finished') => CompletionStep]_vars
  /\ []((mode = "test" /\ Finished) => \A id \in QuestionIds : HasAnswer(answers, id))

(* -------------------------------- C17 ---------------------------------- *)

\* C17: when a confirmed submission replaces the record of a question, the new
\* record carries no errorTag: after a confirmed submission the record under
\* the current question's id has no tag, whatever tag the record before had;
\* so a tag is only ever found on a record that its tag buttons still reach.
C17_ResubmissionDropsTag ==
  /\ [][\A s \in ChoiceIndices :
          handleChoice(s, TRUE) =>
            \A a \in AnswersFor(answers', questions[currentQuestionIndex].id) :
              a.errorTag = NoTag]_vars
  /\ [](\A i \in Indices :
          \A a \in AnswersFor(answers, questions[i].id) :
            a.errorTag # NoTag => reviewList[i] = "live")

\* After the results of a test session were shown and an incorrect answer was
\* tagged, the questions before the last were answered again: the record of
\* question 0 carries no tag, its tag buttons no longer reach it, and the tagged
\* record of another question is still reached by its buttons.
C17_Witness ==
  /\ mode = "test"
  /\ Finished
  /\ timers = <<>>
  /\ reviewList[0] = "unbound"
  /\ \E a \in AnswersFor(answers, questions[0].id) : a.errorTag = NoTag
  /\ \E a \in Taggable : a.errorTag \in ErrorTags /\ a.id # questions[0].id

(* -------------------------------- C18 ---------------------------------- *)

\* The index every confirmed submission of the session was made on, when one
\* question only has a record: handleChoice stores under the current question.
OnlyAnsweredIndex == CHOOSE i \in Indices : HasAnswer(answers, questions[i].id)

\* C18: the auto-advance of a practice submission made while
\* currentQuestionIndex = i sets currentQuestionIndex to i + 1 when i is not
\* the last index, and finishes the session exactly when i is the last index,
\* whatever jumps happen while its timers are pending. Stated for the sessions
\* in which one question i has been answered and one sequence is left, whose
\* 200 ms callback runs in this step.
C18_AdvanceFromSubmissionIndex ==
  [][(/\ mode = "practice"
      /\ ~Finished
      /\ Cardinality(answers) = 1
      /\ timers = <<[phase |-> "advance", session |-> "current"]>>
      /\ advanceTimeout) =>
       IF CanAdvance(OnlyAnsweredIndex)
       THEN currentQuestionIndex' = OnlyAnsweredIndex + 1 /\ ~Finished'
       ELSE Finished']_vars

(* -------------------------------- C19 ---------------------------------- *)

\* C19: when the timers fire, every confirmed practice submission is followed by
\* its explanation being shown and then by exactly one run of the advance step.
\* A submission adds one sequence to the pending ones and nothing else does; the
\* 500 ms callback shows the explanation; a sequence leaves the pending ones
\* only one at a time, in a run of the advance step (an increment of the index
\* or the completion), the oldest first. The 500 ms callbacks keep running
\* unless from some time on no sequence waits for one, and the advance steps
\* keep running unless from some time on no sequence is pending: as every run
\* serves the oldest sequence that waits, no sequence stays pending forever.
C19_FeedbackSequenceCompletes ==
  /\ [][/\ overlayTimeout => ~feedbackAreaHidden'
        /\ Len(timers') > Len(timers) =>
             (mode = "practice" /\ SubmitStep /\ Len(timers') = Len(timers) + 1)
        /\ (mode = "practice" /\ SubmitStep) => Len(timers') = Len(timers) + 1
        /\ Len(timers') < Len(timers) =>
             /\ advanceTimeout
             /\ Len(timers') = Len(timers) - 1
             /\ Head(timers).phase = "advance"
             /\ currentQuestionIndex' = currentQuestionIndex + 1 \/ Finished']_vars
  /\ []<><<overlayTimeout>>_vars \/ <>[](FirstOverlay = {})
  /\ []<><<advanceTimeout>>_vars \/ <>[](timers = <<>>)

\* Two sequences of a practice session are pending: the explanation of the
\* first is showing and its advance step is due, the second still waits for
\* its 500 ms callback.
C19_Witness ==
  /\ mode = "practice"
  /\ ~feedbackAreaHidden
  /\ timers = <<[phase |-> "advance", session |-> "current"],
               [phase |-> "overlay", session |-> "current"]>>

(* -------------------------------- C20 ---------------------------------- *)

\* C20: while a test session is in progress nothing tells whether an answer was
\* correct: the progress item of an answered question shows the neutral
\* answered status whatever its isCorrect, no item shows correct or incorrect,
\* the explanation is not showing, and a jump back to an answered question does
\* not show it; the correct and incorrect statuses are shown in practice mode
\* only.
C20_NoCorrectnessInTest ==
  /\ []((mode = "test" /\ InProgress) =>
         /\ \A i \in Indices :
              progressItems[i] =
                IF HasAnswer(answers, questions[i].id) THEN "answered" ELSE "plain"
         /\ feedbackAreaHidden)
  /\ [](\A i \in Indices : progressItems[i] \in {"correct", "incorrect"} => mode = "practice")
  /\ [][(mode = "test" /\ JumpStep) => feedbackAreaHidden']_vars

====
